---------------------------- MODULE Spec2Model ----------------------------
(***************************************************************************)
(* FriendWatch session core (server.js): the in-memory room registry, the  *)
(* POST /create route and the four socket.io handlers join-room, control,  *)
(* request-sync and disconnect.  Node runs one handler at a time to        *)
(* completion, so every handler is one atomic action.                      *)
(*                                                                         *)
(* Socket ids and room uuids are fresh on every allocation; they are       *)
(* numbered in allocation order.  `last` is the inbound event handled by   *)
(* the latest step and `out` the events that handler emitted, in order.    *)
(***************************************************************************)
EXTENDS Integers, Sequences, FiniteSets, TLC

\* Bounds of the model.
MaxSockets == 3
MaxRooms == 2
MaxTime == 1

\* hostSocketId: null
NoSocket == 0
\* A roomId string such as "constructor" or "__proto__": never a uuid, yet
\* rooms[roomId] finds a truthy value on the prototype chain of `rooms = {}`.
InheritedKey == 0
\* hostSocketId read from an object that has no such property.
Undefined == -1

Sockets == 1..MaxSockets
Uuids == 1..MaxRooms
RoomIdInputs == Uuids \cup {InheritedKey}
ControlActions == {"play", "pause", "seek", "stop"}
CurrentTimes == {-1, 1}
UndefinedState == [undefined |-> TRUE]

\* Two deployments are explored: one room open to MaxSockets connections whose
\* host sends any of CurrentTimes, and MaxRooms rooms open to MaxSockets - 1
\* connections whose hosts send one currentTime.
Scopes == { [rooms |-> 1, sockets |-> MaxSockets, times |-> CurrentTimes],
            [rooms |-> MaxRooms, sockets |-> MaxSockets - 1, times |-> {1}] }

VARIABLES
    rooms,        \* the registry: uuid -> [hostSocketId, state, clients]
    adapter,      \* socket.io channels: uuid -> sockets that socket.join()ed it
    connected,    \* sockets whose connection is open
    socketCount,  \* socket ids handed out so far
    uuidCount,    \* uuids handed out so far
    now,          \* Date.now()
    running,      \* the node process is alive
    migratedTo,   \* history: uuid -> member that got the host role by migration
    last,         \* the event handled by the latest step
    out,          \* what that handler emitted, in order
    scope         \* the deployment explored: how many uuids and socket ids there are

vars == <<rooms, adapter, connected, socketCount, uuidCount, now, running,
          migratedTo, last, out, scope>>

----------------------------------------------------------------------------
\* Helpers over the insertion-ordered Set room.clients (a duplicate-free sequence).

RECURSIVE SeqToSet(_)
SeqToSet(s) == IF s = <<>> THEN {} ELSE {Head(s)} \cup SeqToSet(Tail(s))

Has(clients, id) == id \in SeqToSet(clients)

\* room.clients.size
Size(clients) == Cardinality(SeqToSet(clients))

SetAdd(clients, id) == IF Has(clients, id) THEN clients ELSE Append(clients, id)

\* Variant of clients.delete: the entry stays.
SetDeleteNothing(clients, id) == clients

SetDelete(clients, id) == SelectSeq(clients, LAMBDA x : x # id)

\* Variant of the migration: the host role goes to nobody.
AlwaysNull(clients) == NoSocket

\* [...room.clients][0] || null
FirstOrNull(clients) == IF clients = <<>> THEN NoSocket ELSE Head(clients)

\* rooms[roomId] is truthy
Truthy(roomId) == roomId \in DOMAIN rooms \/ roomId = InheritedKey

Emit(event, to, payload) == [event |-> event, to |-> to, payload |-> payload]

\* Variant of the snapshot: it is sent to the whole room as well.
SyncStateToRoom(room, to) ==
    Emit("sync-state", {to} \cup SeqToSet(room.clients),
         [state |-> room.state, serverTime |-> now, hostSocketId |-> room.hostSocketId])

SyncState(room, to) ==
    Emit("sync-state", {to},
         [state |-> room.state, serverTime |-> now, hostSocketId |-> room.hostSocketId])

----------------------------------------------------------------------------
Init ==
    /\ rooms = <<>>
    /\ adapter = [r \in Uuids |-> {}]
    /\ connected = {}
    /\ socketCount = 0
    /\ uuidCount = 0
    /\ now = 0
    /\ running = TRUE
    /\ migratedTo = [r \in Uuids |-> NoSocket]
    /\ last = [kind |-> "start"]
    /\ out = <<>>
    /\ scope \in Scopes

\* Date.now() advances between two events.
Tick ==
    /\ running
    /\ now < MaxTime
    /\ now' = now + 1
    /\ last' = [kind |-> "tick"]
    /\ out' = <<>>
    /\ UNCHANGED <<rooms, adapter, connected, socketCount, uuidCount, running, migratedTo, scope>>

\* io.on('connection'): a new socket with a fresh id.
Connection ==
    /\ running
    /\ socketCount < scope.sockets
    /\ socketCount' = socketCount + 1
    /\ connected' = connected \cup {socketCount + 1}
    /\ last' = [kind |-> "connection", socket |-> socketCount + 1]
    /\ out' = <<>>
    /\ UNCHANGED <<rooms, adapter, uuidCount, now, running, migratedTo, scope>>

NewRoom ==
    [hostSocketId |-> NoSocket,
     state |-> [playing |-> FALSE, currentTime |-> 0, lastUpdate |-> now],
     clients |-> <<>>]

\* app.post('/create')
Create(hasVideo, hasArt) ==
    /\ running
    /\ uuidCount < scope.rooms
    /\ IF ~hasVideo \/ ~hasArt
       THEN /\ last' = [kind |-> "create", status |-> 400]
            /\ UNCHANGED <<rooms, uuidCount>>
       ELSE /\ uuidCount' = uuidCount + 1
            /\ rooms' = [r \in DOMAIN rooms \cup {uuidCount + 1} |->
                            IF r = uuidCount + 1 THEN NewRoom ELSE rooms[r]]
            /\ last' = [kind |-> "create", status |-> 302]
    /\ out' = <<>>
    /\ UNCHANGED <<adapter, connected, socketCount, now, running, migratedTo, scope>>

\* An exception escapes a socket handler: node terminates, the registry and
\* every connection are gone.
Crash ==
    /\ running' = FALSE
    /\ rooms' = <<>>
    /\ adapter' = [r \in Uuids |-> {}]
    /\ connected' = {}
    /\ out' = <<>>
    /\ UNCHANGED <<socketCount, uuidCount, now, migratedTo, scope>>

\* Variant of the host assignment: asHost is ignored once the room has a host.
AdmitFirstComeHost(room, socket, asHost) ==
    IF room.hostSocketId = NoSocket
    THEN [room EXCEPT !.clients = SetAdd(@, socket), !.hostSocketId = socket]
    ELSE [room EXCEPT !.clients = SetAdd(@, socket)]

Admit(room, socket, asHost) ==
    IF asHost \/ room.hostSocketId = NoSocket
    THEN [room EXCEPT !.clients = SetAdd(@, socket), !.hostSocketId = socket]
    ELSE [room EXCEPT !.clients = SetAdd(@, socket)]

JoinReply(room, socket, asHost) ==
    IF asHost \/ room.hostSocketId = NoSocket
    THEN << Emit("role", {socket}, [role |-> "host"]) >>
    ELSE << Emit("role", {socket}, [role |-> "guest"]),
            SyncState(Admit(room, socket, asHost), socket) >>

\* Variants of the capacity check: off by one; forgetting the member exemption.
FullOffByOne(room, socket) == Size(room.clients) > 2 /\ ~Has(room.clients, socket)

FullEvenForMember(room, socket) == Size(room.clients) >= 2

\* "Limit to two clients"
Full(room, socket) == Size(room.clients) >= 2 /\ ~Has(room.clients, socket)

\* socket.on('join-room')
JoinRoom(socket, roomId, asHost) ==
    /\ running
    /\ socket \in connected
    /\ last' = [kind |-> "join-room", socket |-> socket, roomId |-> roomId, asHost |-> asHost]
    /\ IF ~Truthy(roomId)
       THEN /\ out' = << Emit("room-error", {socket}, [message |-> "Room not found."]) >>
            /\ UNCHANGED <<rooms, adapter, connected, socketCount, uuidCount, now,
                           running, migratedTo, scope>>
       ELSE IF roomId \notin DOMAIN rooms
       THEN Crash  \* room.clients is undefined: TypeError on .size
       ELSE IF Full(rooms[roomId], socket)
       THEN /\ out' = << Emit("room-error", {socket},
                              [message |-> "Room is full (2 users max)."]) >>
            /\ UNCHANGED <<rooms, adapter, connected, socketCount, uuidCount, now,
                           running, migratedTo, scope>>
       ELSE /\ adapter' = [adapter EXCEPT ![roomId] = @ \cup {socket}]
            /\ rooms' = [rooms EXCEPT ![roomId] = Admit(@, socket, asHost)]
            /\ out' = JoinReply(rooms[roomId], socket, asHost)
            /\ UNCHANGED <<connected, socketCount, uuidCount, now, running, migratedTo, scope>>

\* Variant of the state machine: the stamp is taken from currentTime.
TransitionStampsPosition(state, action, currentTime) ==
    IF action = "play"
    THEN [playing |-> TRUE, currentTime |-> currentTime, lastUpdate |-> currentTime]
    ELSE IF action = "pause"
    THEN [playing |-> FALSE, currentTime |-> currentTime, lastUpdate |-> currentTime]
    ELSE IF action = "seek"
    THEN [state EXCEPT !.currentTime = currentTime, !.lastUpdate = currentTime]
    ELSE state

\* Variant of the state machine: seek also pauses.
TransitionSeekPauses(state, action, currentTime) ==
    IF action = "play"
    THEN [playing |-> TRUE, currentTime |-> currentTime, lastUpdate |-> now]
    ELSE IF action \in {"pause", "seek"}
    THEN [playing |-> FALSE, currentTime |-> currentTime, lastUpdate |-> now]
    ELSE state

Transition(state, action, currentTime) ==
    IF action = "play"
    THEN [playing |-> TRUE, currentTime |-> currentTime, lastUpdate |-> now]
    ELSE IF action = "pause"
    THEN [playing |-> FALSE, currentTime |-> currentTime, lastUpdate |-> now]
    ELSE IF action = "seek"
    THEN [state EXCEPT !.currentTime = currentTime, !.lastUpdate = now]
    ELSE state

\* Variant of the host gate: any member of the room passes.
AuthoritativeAnyMember(socket, roomId) ==
    /\ roomId \in DOMAIN rooms
    /\ Has(rooms[roomId].clients, socket)

\* The host gate of the control handler: the handler goes on past it.
Authoritative(socket, roomId) ==
    /\ roomId \in DOMAIN rooms
    /\ socket = rooms[roomId].hostSocketId

\* socket.on('control')
Control(socket, roomId, action, currentTime) ==
    /\ running
    /\ socket \in connected
    /\ last' = [kind |-> "control", socket |-> socket, roomId |-> roomId,
                action |-> action, currentTime |-> currentTime]
    /\ IF ~Authoritative(socket, roomId)
       THEN /\ out' = <<>>
            /\ UNCHANGED rooms
       ELSE /\ rooms' = [rooms EXCEPT ![roomId].state = Transition(@, action, currentTime)]
            /\ out' = << Emit("control", adapter[roomId],
                              [action |-> action, currentTime |-> currentTime,
                               serverTime |-> now,
                               playing |-> Transition(rooms[roomId].state, action,
                                                      currentTime).playing]) >>
    /\ UNCHANGED <<adapter, connected, socketCount, uuidCount, now, running, migratedTo, scope>>

\* socket.on('request-sync')
RequestSync(socket, roomId) ==
    /\ running
    /\ socket \in connected
    /\ last' = [kind |-> "request-sync", socket |-> socket, roomId |-> roomId]
    /\ out' = IF ~Truthy(roomId) THEN <<>>
              ELSE IF roomId \in DOMAIN rooms THEN << SyncState(rooms[roomId], socket) >>
              ELSE << Emit("sync-state", {socket},
                           [state |-> UndefinedState, serverTime |-> now,
                            hostSocketId |-> Undefined]) >>
    /\ UNCHANGED <<rooms, adapter, connected, socketCount, uuidCount, now, running,
                   migratedTo, scope>>

\* Variant of the disconnect: the host role always goes to the first member,
\* whoever leaves.
LeaveElectsFirst(room, socket) ==
    IF Has(room.clients, socket)
    THEN [room EXCEPT !.clients = SetDelete(@, socket),
                      !.hostSocketId = IF room.clients = <<>> THEN NoSocket
                                       ELSE Head(room.clients)]
    ELSE room

\* Variant of the disconnect: a room whose host leaves is paused.
LeavePauses(room, socket) ==
    IF Has(room.clients, socket)
    THEN [room EXCEPT !.clients = SetDelete(@, socket),
                      !.hostSocketId = IF @ = socket
                                       THEN FirstOrNull(SetDelete(room.clients, socket))
                                       ELSE @,
                      !.state.playing = IF room.hostSocketId = socket THEN FALSE ELSE @]
    ELSE room

\* Variant of the disconnect: the host role is not taken from the leaver.
LeaveKeepsHost(room, socket) ==
    IF Has(room.clients, socket)
    THEN [room EXCEPT !.clients = SetDelete(@, socket)]
    ELSE room

\* One room's share of the disconnect handler's forEach.
Leave(room, socket) ==
    IF Has(room.clients, socket)
    THEN [room EXCEPT !.clients = SetDelete(@, socket),
                      !.hostSocketId = IF @ = socket
                                       THEN FirstOrNull(SetDelete(room.clients, socket))
                                       ELSE @]
    ELSE room

\* Variant of the teardown: an emptied room stays in the registry.
SurvivesAlways(roomId, socket) == TRUE

\* delete rooms[roomId] for the rooms the socket leaves empty.
Survives(roomId, socket) ==
    ~Has(rooms[roomId].clients, socket) \/ Leave(rooms[roomId], socket).clients # <<>>

Migrates(roomId, socket) ==
    /\ roomId \in DOMAIN rooms
    /\ Has(rooms[roomId].clients, socket)
    /\ rooms[roomId].hostSocketId = socket
    /\ Leave(rooms[roomId], socket).hostSocketId # NoSocket

\* socket.on('disconnect'): socket.io has already taken the socket out of
\* every channel when the handler runs.
Disconnect(socket) ==
    /\ running
    /\ socket \in connected
    /\ connected' = connected \ {socket}
    /\ adapter' = [r \in Uuids |-> adapter[r] \ {socket}]
    /\ rooms' = [r \in {x \in DOMAIN rooms : Survives(x, socket)} |-> Leave(rooms[r], socket)]
    /\ migratedTo' = [r \in Uuids |-> IF Migrates(r, socket)
                                      THEN Leave(rooms[r], socket).hostSocketId
                                      ELSE IF migratedTo[r] = socket THEN NoSocket
                                      ELSE migratedTo[r]]
    /\ last' = [kind |-> "disconnect", socket |-> socket]
    /\ out' = <<>>
    /\ UNCHANGED <<socketCount, uuidCount, now, running, scope>>

Next ==
    \/ Tick
    \/ Connection
    \/ \E hasVideo, hasArt \in BOOLEAN : Create(hasVideo, hasArt)
    \/ \E socket \in Sockets, roomId \in RoomIdInputs, asHost \in BOOLEAN :
          JoinRoom(socket, roomId, asHost)
    \/ \E socket \in Sockets, roomId \in RoomIdInputs, action \in ControlActions,
          currentTime \in scope.times :
          Control(socket, roomId, action, currentTime)
    \/ \E socket \in Sockets, roomId \in RoomIdInputs : RequestSync(socket, roomId)
    \/ \E socket \in Sockets : Disconnect(socket)

Spec == Init /\ [][Next]_vars

\* The server goes on handling events for as long as any can arrive.
FairSpec == Spec /\ WF_vars(Next)

----------------------------------------------------------------------------
\* Vocabulary of the properties.

Members(roomId) == SeqToSet(rooms[roomId].clients)

Host(roomId) == rooms[roomId].hostSocketId

RoleTo(socket, role) == Emit("role", {socket}, [role |-> role])

ErrorTo(socket, message) == Emit("room-error", {socket}, [message |-> message])

\* The step handled a join-room that got past both rejections.
AdmittedJoin ==
    /\ last'.kind = "join-room"
    /\ last'.roomId \in DOMAIN rooms
    /\ ~(Size(rooms[last'.roomId].clients) >= 2 /\ last'.socket \notin Members(last'.roomId))

----------------------------------------------------------------------------
\* C1: in every reachable state every room of the registry has at most 2 members.
C1_AtMostTwoMembers ==
    \A r \in DOMAIN rooms : Size(rooms[r].clients) <= 2 /\ Len(rooms[r].clients) <= 2

\* A room holds 2 members and has just turned a third connection away.
C1_Witness ==
    /\ last.kind = "join-room"
    /\ last.roomId \in DOMAIN rooms
    /\ Size(rooms[last.roomId].clients) = 2
    /\ last.socket \notin Members(last.roomId)

\* C2: a control event from a connection that is not the room's current host
\* emits nothing and leaves the room's playback state, members and host (the
\* whole registry, and the channels) as they were; a former host whose role
\* another connection's join with asHost took over is such a connection.
C2_NonHostControlIgnored ==
    [][ (/\ last'.kind = "control"
         /\ last'.roomId \in DOMAIN rooms
         /\ last'.socket # Host(last'.roomId))
        => (out' = <<>> /\ rooms' = rooms /\ adapter' = adapter) ]_vars

\* The first-joined member of a 2-member room, who joined as the host and is
\* no longer the host (a later join with asHost overwrote it), has just sent a
\* control event.
C2_Witness ==
    /\ last.kind = "control"
    /\ last.roomId \in DOMAIN rooms
    /\ Size(rooms[last.roomId].clients) = 2
    /\ last.socket = Head(rooms[last.roomId].clients)
    /\ last.socket # Host(last.roomId)
    /\ out = <<>>

\* C3: for every admitted join-room: if asHost is true or the room has no host,
\* the joining connection becomes the host and is sent role 'host' and nothing
\* else; otherwise the host stays and the joining connection is sent role
\* 'guest' and then a sync-state with the room's playback state, the server
\* time and the host identifier.
C3_JoinAssignsRole ==
    [][ AdmittedJoin =>
        LET r == last'.roomId
            s == last'.socket
        IN  /\ r \in DOMAIN rooms'
            /\ s \in SeqToSet(rooms'[r].clients)
            /\ IF last'.asHost \/ Host(r) = NoSocket
               THEN /\ rooms'[r].hostSocketId = s
                    /\ out' = << RoleTo(s, "host") >>
               ELSE /\ rooms'[r].hostSocketId = Host(r)
                    /\ out' = << RoleTo(s, "guest"),
                                 Emit("sync-state", {s},
                                      [state |-> rooms[r].state,
                                       serverTime |-> now',
                                       hostSocketId |-> Host(r)]) >> ]_vars

\* A connection has just seized the host role of a room that had another host.
C3_Witness ==
    /\ last.kind = "join-room"
    /\ last.asHost
    /\ last.roomId \in DOMAIN rooms
    /\ Size(rooms[last.roomId].clients) = 2
    /\ Host(last.roomId) = last.socket
    /\ Head(rooms[last.roomId].clients) # last.socket
    /\ out = << RoleTo(last.socket, "host") >>

\* The step handled a control event with the given action sent by the host.
HostControl(roomId) ==
    /\ last'.kind = "control"
    /\ last'.roomId = roomId
    /\ roomId \in DOMAIN rooms
    /\ last'.socket = Host(roomId)

\* The control event of the step was applied to the room's state and broadcast.
Applied(roomId) ==
    /\ roomId \in DOMAIN rooms /\ roomId \in DOMAIN rooms'
    /\ rooms'[roomId].state.currentTime = last'.currentTime
    /\ rooms'[roomId].state.lastUpdate = now'
    /\ (last'.action = "play" => rooms'[roomId].state.playing)
    /\ (last'.action = "pause" => ~rooms'[roomId].state.playing)
    /\ (last'.action = "seek" => rooms'[roomId].state.playing = rooms[roomId].state.playing)
    /\ Len(out') = 1
    /\ out'[1].event = "control"
    /\ last'.socket \in out'[1].to

\* The host of a 2-member room disconnects: the other member is the host at once.
MigrationInStep ==
    \A r \in DOMAIN rooms :
        (/\ last'.kind = "disconnect"
         /\ Size(rooms[r].clients) = 2
         /\ Host(r) = last'.socket)
        => /\ r \in DOMAIN rooms'
           /\ SeqToSet(rooms'[r].clients) = Members(r) \ {last'.socket}
           /\ rooms'[r].hostSocketId \in Members(r) \ {last'.socket}

\* C4 as stated: when the host of a 2-member room disconnects the remaining
\* member becomes the host in the same step, and every later play, pause or
\* seek it sends is applied and broadcast.
C4_MigratedHostAlwaysControls ==
    [][ /\ MigrationInStep
        /\ \A r \in Uuids :
              (/\ last'.kind = "control"
               /\ last'.roomId = r
               /\ last'.action \in {"play", "pause", "seek"}
               /\ migratedTo[r] = last'.socket)
              => Applied(r) ]_vars

\* C4 amended: the same, for every later play, pause or seek the member sends
\* while it is still the room's host (no join-room with asHost has taken the
\* role from it since).
C4_MigratedHostControlsWhileHost ==
    [][ /\ MigrationInStep
        /\ \A r \in Uuids :
              (/\ last'.kind = "control"
               /\ last'.roomId = r
               /\ last'.action \in {"play", "pause", "seek"}
               /\ migratedTo[r] = last'.socket
               /\ r \in DOMAIN rooms
               /\ Host(r) = last'.socket)
              => Applied(r) ]_vars

\* The member that inherited the host role has just had a seek applied.
C4_Witness ==
    /\ last.kind = "control"
    /\ last.roomId \in DOMAIN rooms
    /\ migratedTo[last.roomId] = last.socket
    /\ Host(last.roomId) = last.socket
    /\ last.action = "seek"
    /\ Len(out) = 1
    /\ out[1].event = "control"
    /\ rooms[last.roomId].state.lastUpdate = now
    /\ rooms[last.roomId].state.currentTime = last.currentTime

\* A uuid that was handed out and is no longer in the registry: its room was
\* torn down.
TornDown(roomId) == roomId <= uuidCount /\ roomId \notin DOMAIN rooms

\* C5: when the last member of a room disconnects the room leaves the registry
\* in the same step, it never comes back, and every later join-room naming it
\* is answered with room-error 'Room not found.' to the requester alone and
\* admits nobody.
C5_TeardownThenNotFound ==
    [][ /\ \A r \in DOMAIN rooms :
              (last'.kind = "disconnect" /\ Members(r) = {last'.socket})
              => r \notin DOMAIN rooms'
        /\ \A r \in Uuids :
              TornDown(r) =>
                /\ r \notin DOMAIN rooms'
                /\ (last'.kind = "join-room" /\ last'.roomId = r)
                   => /\ out' = << ErrorTo(last'.socket, "Room not found.") >>
                      /\ rooms' = rooms
                      /\ adapter' = adapter ]_vars

\* A join-room with asHost has just been refused for a room that was torn down.
C5_Witness ==
    /\ running
    /\ last.kind = "join-room"
    /\ last.asHost
    /\ TornDown(last.roomId)
    /\ out = << ErrorTo(last.socket, "Room not found.") >>

\* C6: a join-room for a room of 2 members from a connection that is not one of
\* them is refused: the requester alone is sent a room-error and nothing else
\* is emitted, and members, host and playback state stay as they were, with
\* asHost true as well; a join-room from one of the 2 members is admitted.
C6_FullRoomRejects ==
    [][ \A r \in DOMAIN rooms :
          (last'.kind = "join-room" /\ last'.roomId = r /\ Size(rooms[r].clients) = 2)
          => IF last'.socket \notin Members(r)
             THEN /\ out' = << ErrorTo(last'.socket, "Room is full (2 users max).") >>
                  /\ rooms' = rooms
                  /\ adapter' = adapter
             ELSE /\ out'[1].event = "role"
                  /\ out'[1].to = {last'.socket}
                  /\ SeqToSet(rooms'[r].clients) = Members(r) ]_vars

\* A third connection asking to join as host has just been refused.
C6_Witness ==
    /\ last.kind = "join-room"
    /\ last.asHost
    /\ last.roomId \in DOMAIN rooms
    /\ Size(rooms[last.roomId].clients) = 2
    /\ last.socket \notin Members(last.roomId)
    /\ Host(last.roomId) # last.socket
    /\ out = << ErrorTo(last.socket, "Room is full (2 users max).") >>

\* C7: a control event from the host sets the playback state to: play ->
\* playing, currentTime, now; pause -> not playing, currentTime, now; seek ->
\* playing as before, currentTime, now; whatever currentTime is.
C7_HostControlTransitions ==
    [][ \A r \in DOMAIN rooms :
          HostControl(r) =>
            /\ r \in DOMAIN rooms'
            /\ (last'.action = "play" =>
                  rooms'[r].state = [playing |-> TRUE, currentTime |-> last'.currentTime,
                                     lastUpdate |-> now'])
            /\ (last'.action = "pause" =>
                  rooms'[r].state = [playing |-> FALSE, currentTime |-> last'.currentTime,
                                     lastUpdate |-> now'])
            /\ (last'.action = "seek" =>
                  rooms'[r].state = [playing |-> rooms[r].state.playing,
                                     currentTime |-> last'.currentTime,
                                     lastUpdate |-> now']) ]_vars

\* The host of a playing room has just sought to a negative currentTime, which
\* was stored as the position while the room kept playing.
C7_Witness ==
    /\ last.kind = "control"
    /\ last.action = "seek"
    /\ last.currentTime < 0
    /\ last.roomId \in DOMAIN rooms
    /\ Host(last.roomId) = last.socket
    /\ rooms[last.roomId].state = [playing |-> TRUE, currentTime |-> last.currentTime,
                                   lastUpdate |-> now]
    /\ now > 0

\* C8: every control event accepted from the host is broadcast to exactly the
\* connections that are members of the room at that moment, the host among
\* them, all of them connected, and to no other connection.
C8_BroadcastToMembersOnly ==
    [][ \A r \in DOMAIN rooms :
          HostControl(r) =>
            /\ Len(out') = 1
            /\ out'[1].event = "control"
            /\ out'[1].to = Members(r)
            /\ out'[1].to = SeqToSet(rooms'[r].clients)
            /\ last'.socket \in out'[1].to
            /\ out'[1].to \subseteq connected' ]_vars

\* A control event has just been broadcast to the 2 members of a room while a
\* connection outside the room was open.
C8_Witness ==
    /\ last.kind = "control"
    /\ last.roomId \in DOMAIN rooms
    /\ Len(out) = 1
    /\ out[1].event = "control"
    /\ out[1].to = Members(last.roomId)
    /\ Cardinality(out[1].to) = 2
    /\ connected \ out[1].to # {}

\* C9 as stated: a join-room or a control event naming a room identifier that
\* is not in the registry sends one room-error to the originating connection
\* and to nobody else.
C9_AbsentRoomIsError ==
    [][ (/\ last'.kind \in {"join-room", "control"}
         /\ last'.roomId \notin DOMAIN rooms)
        => /\ Len(out') = 1
           /\ out'[1].event = "room-error"
           /\ out'[1].to = {last'.socket} ]_vars

\* C10 as stated: a request-sync for a room of the registry sends one sync-state
\* to the requester alone, with the room's playback state, the server time and
\* the host identifier; a request-sync for an absent room emits nothing; neither
\* changes any room.
C10_RequestSyncSnapshot ==
    [][ last'.kind = "request-sync" =>
          /\ rooms' = rooms
          /\ adapter' = adapter
          /\ IF last'.roomId \in DOMAIN rooms
             THEN out' = << Emit("sync-state", {last'.socket},
                                 [state |-> rooms[last'.roomId].state,
                                  serverTime |-> now',
                                  hostSocketId |-> Host(last'.roomId)]) >>
             ELSE out' = <<>> ]_vars

\* The rooms a connection is a member of.
RoomsOf(socket) == {r \in DOMAIN rooms : socket \in Members(r)}

\* C11 as stated: in every reachable state each connection is a member of at
\* most one room.
C11_OneRoomPerConnection ==
    \A socket \in Sockets : Cardinality(RoomsOf(socket)) <= 1

\* C12: once a connection's disconnect is handled it is neither a member nor
\* the host of any room, however many rooms it had joined, and the rooms it
\* was no member of are exactly as before.
C12_DisconnectLeavesEveryRoom ==
    [][ last'.kind = "disconnect" =>
          /\ \A r \in DOMAIN rooms' :
                /\ last'.socket \notin SeqToSet(rooms'[r].clients)
                /\ rooms'[r].hostSocketId # last'.socket
          /\ \A r \in DOMAIN rooms :
                last'.socket \notin Members(r)
                => (r \in DOMAIN rooms' /\ rooms'[r] = rooms[r]) ]_vars

\* A connection that hosted two rooms has just disconnected: both rooms are
\* still there, each hosted by the member it left behind.
C12_Witness ==
    /\ last.kind = "disconnect"
    /\ Cardinality(DOMAIN rooms) >= 2
    /\ \A r \in DOMAIN rooms :
          /\ migratedTo[r] # NoSocket
          /\ Host(r) = migratedTo[r]
          /\ Members(r) = {migratedTo[r]}
          /\ last.socket \notin Members(r)

\* C13 as stated: every room of the registry without members is eventually
\* removed from the registry, a room that nobody ever joined included.
C13_EmptyRoomReclaimed ==
    \A r \in Uuids :
        [](r \in DOMAIN rooms /\ rooms[r].clients = <<>> => <>(r \notin DOMAIN rooms))

\* C14 as stated: in every reachable state the playback position of every room
\* is non-negative, whatever currentTime values the hosts send.
C14_PositionNonNegative ==
    \A r \in DOMAIN rooms : rooms[r].state.currentTime >= 0

\* C15: in every reachable state the host of a room is nobody or one of its
\* members, and a room with a member has a host.
C15_HostIsMember ==
    \A r \in DOMAIN rooms :
        /\ Host(r) # NoSocket => Host(r) \in Members(r)
        /\ Members(r) # {} => Host(r) # NoSocket

\* The host of a room has just left it to its other member, a connection
\* opened after the host's, who is the host now.
C15_Witness ==
    /\ last.kind = "disconnect"
    /\ \E r \in DOMAIN rooms :
          /\ migratedTo[r] # NoSocket
          /\ Members(r) = {migratedTo[r]}
          /\ Host(r) = migratedTo[r]
          /\ last.socket < migratedTo[r]

\* C16 as stated: for every admitted join-room, a re-join by a member included,
\* the role sent to the joining connection is 'host' exactly when it is the
\* room's host right after the join, and a sync-state sent on join never names
\* its receiver as hostSocketId.
C16_RoleMatchesHost ==
    [][ AdmittedJoin =>
          LET r == last'.roomId
              s == last'.socket
          IN  /\ out'[1] = RoleTo(s, IF rooms'[r].hostSocketId = s THEN "host" ELSE "guest")
              /\ \A i \in 1..Len(out') :
                    out'[i].event = "sync-state" => out'[i].payload.hostSocketId # s ]_vars

\* C17 as stated: whenever a control broadcast is emitted for a room, whatever
\* the action, the room's playback state right afterwards agrees with the
\* payload: position = currentTime, lastUpdate = serverTime, playing = playing.
C17_BroadcastMatchesState ==
    [][ (last'.kind = "control" /\ out' # <<>>) =>
          LET r == last'.roomId
              p == out'[1].payload
          IN  /\ r \in DOMAIN rooms'
              /\ rooms'[r].state.currentTime = p.currentTime
              /\ rooms'[r].state.lastUpdate = p.serverTime
              /\ rooms'[r].state.playing = p.playing ]_vars

\* The sync-state events among the emissions of the step that carry the state
\* of a room.
Snapshots(emitted) ==
    {i \in 1..Len(emitted) :
        emitted[i].event = "sync-state" /\ emitted[i].payload.state # UndefinedState}

\* C18 as stated: a sync-state carrying a room's playback state and host
\* identifier is delivered only to members of that room at the time it is sent.
C18_SnapshotToMembersOnly ==
    [][ \A i \in Snapshots(out') :
          /\ last'.roomId \in DOMAIN rooms'
          /\ out'[i].to \subseteq SeqToSet(rooms'[last'.roomId].clients) ]_vars

\* C18 amended: a sync-state carrying a room's playback state and host
\* identifier is delivered only to the one connection whose join-room or
\* request-sync it answers; on join-room that connection is a member of the
\* room, on request-sync it is any connection that names the room, member or
\* not.
C18_SnapshotToRequesterOnly ==
    [][ \A i \in Snapshots(out') :
          /\ last'.kind \in {"join-room", "request-sync"}
          /\ out'[i].to = {last'.socket}
          /\ last'.roomId \in DOMAIN rooms'
          /\ out'[i].payload.state = rooms'[last'.roomId].state
          /\ out'[i].payload.hostSocketId = rooms'[last'.roomId].hostSocketId
          /\ last'.kind = "join-room"
             => last'.socket \in SeqToSet(rooms'[last'.roomId].clients) ]_vars

\* A connection outside a room that has a host has just been sent the room's
\* snapshot on request-sync.
C18_Witness ==
    /\ last.kind = "request-sync"
    /\ last.roomId \in DOMAIN rooms
    /\ Host(last.roomId) # NoSocket
    /\ last.socket \notin Members(last.roomId)
    /\ Snapshots(out) = {1}
    /\ out[1].to = {last.socket}
    /\ out[1].payload.hostSocketId = Host(last.roomId)

\* C19: join-room and disconnect leave the playback state of every room as it
\* was; control leaves the members and the host of every room as they were;
\* and an event naming a room of the registry leaves every other room as it
\* was and reaches no connection on account of another room: whoever it is
\* sent to is the sender or a member of the room named.
C19_Frame ==
    [][ /\ last'.kind \in {"join-room", "disconnect"}
           => \A r \in DOMAIN rooms \cap DOMAIN rooms' : rooms'[r].state = rooms[r].state
        /\ last'.kind = "control"
           => \A r \in DOMAIN rooms :
                 /\ r \in DOMAIN rooms'
                 /\ rooms'[r].clients = rooms[r].clients
                 /\ rooms'[r].hostSocketId = rooms[r].hostSocketId
        /\ (last'.kind \in {"join-room", "control", "request-sync"}
            /\ last'.roomId \in DOMAIN rooms)
           => /\ \A b \in DOMAIN rooms \ {last'.roomId} :
                    b \in DOMAIN rooms' /\ rooms'[b] = rooms[b]
              /\ \A i \in 1..Len(out') :
                    out'[i].to \subseteq {last'.socket} \cup Members(last'.roomId) ]_vars

\* The host of one room has just had a play broadcast to its 2 members, while
\* another room with a member of its own and a position of its own stood by.
C19_Witness ==
    /\ last.kind = "control"
    /\ last.action = "play"
    /\ last.roomId \in DOMAIN rooms
    /\ Len(out) = 1
    /\ out[1].to = Members(last.roomId)
    /\ rooms[last.roomId].state.playing
    /\ \E b \in DOMAIN rooms \ {last.roomId} :
          /\ Members(b) # {}
          /\ ~rooms[b].state.playing
          /\ rooms[b].state.currentTime # rooms[last.roomId].state.currentTime

\* C20: with a server clock that never goes backwards, the lastUpdate of a room
\* never decreases and never exceeds the server time, so every sync-state that
\* carries a room's state has serverTime >= state.lastUpdate.
C20_LastUpdateMonotone ==
    [][ /\ now' >= now
        /\ \A r \in DOMAIN rooms' :
              /\ rooms'[r].state.lastUpdate <= now'
              /\ r \in DOMAIN rooms => rooms'[r].state.lastUpdate >= rooms[r].state.lastUpdate
        /\ \A i \in Snapshots(out') :
              /\ out'[i].payload.serverTime = now'
              /\ out'[i].payload.serverTime >= out'[i].payload.state.lastUpdate ]_vars

\* A snapshot of a playing room has just been sent later than the room's last
\* update: the receiver adds a positive elapsed time.
C20_Witness ==
    /\ Snapshots(out) # {}
    /\ \E i \in Snapshots(out) :
          /\ out[i].payload.state.playing
          /\ out[i].payload.serverTime > out[i].payload.state.lastUpdate

=============================================================================
